---- MODULE Spec2Model ----
(***************************************************************************)
(* nightshift: the dispatch loop of internal/agent/scale.go (worker.Scale, *)
(* worker.getEvents) and the OpenShift scanner of                          *)
(* internal/scanner/openshift.go (GetObjects, Scale, SaveState, Watch,     *)
(* toObject).                                                              *)
(*                                                                         *)
(* Time is discrete: an instant is day * SlotsPerDay + slot, the weekday   *)
(* of a day is day % DaysPerWeek.  A Go time.Time is the record            *)
(* [inst, mono]: the instant and whether the value carries a monotonic     *)
(* clock reading (time.Now() does, a value built from calendar fields or   *)
(* by AddDate does not).  Go's == on time.Time compares the whole struct,  *)
(* After/Before compare instants.                                          *)
(***************************************************************************)
EXTENDS Integers, Sequences, FiniteSets, TLC

VARIABLES past, now, objects, schedule, live, annot, winPast, visited,
          processed, calls, prevProduced, lastProduced,
          wpc, watchRet, inch, inClosed, sending, outLog, delays, streamed, watcherNil,
          stopped,
          listed, listRet,
          scalePc, remaining,
          wkPc, wkSched, wkI, wkNext, wkAt

\* the dispatch loop, the tracked set and the backend resources
agentVars == <<past, now, objects, schedule, live, annot, winPast, visited,
               processed, calls, prevProduced, lastProduced>>
\* the watch of the scanner
watchVars == <<wpc, watchRet, inch, inClosed, sending, outLog, delays, streamed, watcherNil,
               stopped>>

\* the last listing of the scanner
scanVars == <<listed, listRet>>

\* worker.Scale statement by statement: where it is, and the Objects its
\* range over a.objects has yet to visit
rangeVars == <<scalePc, remaining>>

\* worker.getEvents statement by statement: where it is, the rule list it
\* walks, the index of the rule, the loop variable next, and the instants
\* of the events appended
walkVars == <<wkPc, wkSched, wkI, wkNext, wkAt>>

\* what a step of the dispatch loop, the scanner's SaveState or the
\* controller leaves alone
besideAgent == <<watchVars, scanVars, rangeVars, walkVars>>
\* what a step of the watch leaves alone
besideWatch == <<agentVars, scanVars, rangeVars, walkVars>>
\* what a listing leaves alone
besideScan == <<agentVars, watchVars, rangeVars, walkVars>>
\* what a step of the walk leaves alone
besideWalk == <<objects, schedule, live, annot, winPast, visited, processed, calls,
                prevProduced, lastProduced, watchVars, scanVars, rangeVars>>

vars == <<agentVars, watchVars, scanVars, rangeVars, walkVars>>

----------------------------------------------------------------------------
(* Bounds of the model *)

\* time-of-day values per day (the rule language has minute resolution)
SlotsPerDay == 2
\* last clock reading the model lets time.Now() return
MaxClock == 7
\* largest distance, in slots, between two consecutive ticks
MaxGap == 4
\* largest replica count of a backend resource
MaxReplicas == 2
\* largest number of scale operations that fail in one tick
MaxFailures == 1
\* largest number of events the backend puts on one change stream
MaxStream == 3

(* Program constants *)
DaysPerWeek == 7
\* the delay up to which a failed reconnect attempt doubles it
BackoffCap == 300
\* GetNextTrigger scans the candidate dates from.date + k, k = 0..LastScanDay
LastScanDay == 6

----------------------------------------------------------------------------
(* time.Time *)

Day(t) == t \div SlotsPerDay
Slot(t) == t % SlotsPerDay
Weekday(d) == d % DaysPerWeek

\* time.Now(): a reading of the wall clock together with a monotonic reading
Now(t) == [inst |-> t, mono |-> TRUE]
\* mutant of AddDay: the post statement of the loop leaves next as it is
AddNoDay(x) == x

\* a time built from calendar fields (time.Date): no monotonic reading
Date(t) == [inst |-> t, mono |-> FALSE]
\* the zero value of time.Time
ZeroTime == Date(0)

After(x, y) == x.inst > y.inst
\* next.AddDate(0, 0, 1): the same time of day on the next calendar day
AddDay(x) == Date(x.inst + SlotsPerDay)

\* mutant of TimeEq: equality of the instants (time.Time.Equal)
TimeEqInstant(x, y) == x.inst = y.inst
\* Go's == on two time.Time values: every field of the struct, the
\* monotonic reading included
TimeEq(x, y) == x = y

----------------------------------------------------------------------------
(* Schedule rules *)

\* the deployment configs of the namespace
UIDs == {"dc1", "dc2"}

AllDays == 0 .. (DaysPerWeek - 1)
Morning == 0
Evening == SlotsPerDay - 1

NoReplicas == [set |-> FALSE, n |-> 0]
Replicas(n) == [set |-> TRUE, n |-> n]

Rule(days, tod, repl, action, triggers) ==
    [days |-> days, time |-> tod, replicas |-> repl, action |-> action,
     triggers |-> triggers]

\* "Mon-Sun 18:00 replicas=0 state=save trigger=silence,report"
EveningSave == Rule(AllDays, Evening, Replicas(0), "save", <<"silence", "report">>)
\* "Mon-Sun 8:00 state=restore"
MorningRestore == Rule(AllDays, Morning, NoReplicas, "restore", <<>>)
\* "Mon-Sun 8:00 replicas=1 state=restore trigger=refreshdb"
MorningRestoreOne == Rule(AllDays, Morning, Replicas(1), "restore", <<"refreshdb">>)
\* "Mon-Sun 8:00 replicas=2"
MorningTwo == Rule(AllDays, Morning, Replicas(2), "", <<>>)
\* "Tue 8:00 replicas=1"
TuesdayOne == Rule({1}, Morning, Replicas(1), "", <<>>)
\* "": the inert rule
Inert == Rule({}, Morning, NoReplicas, "", <<>>)

\* the rule lists the resources carry in the model: the evening rule is
\* declared before the morning rule, two rules fall on the same instant on
\* Tuesdays, and the inert rule precedes a rule that fires
ScheduleChoices ==
    { [dc1 |-> <<EveningSave, MorningRestore>>, dc2 |-> <<MorningTwo, TuesdayOne>>],
      [dc1 |-> <<EveningSave, MorningRestoreOne>>, dc2 |-> <<Inert, MorningTwo>>] }

\* Schedule.GetNextTrigger(from): the first candidate from.date + k,
\* k = 0..LastScanDay, at the rule's time of day, that falls on a day of the
\* rule and is not before from; a no-match error otherwise, which leaves the
\* caller's time as it was.
GetNextTrigger(s, from) ==
    LET cand(k) == (Day(from.inst) + k) * SlotsPerDay + s.time
        ok(k) == Weekday(Day(from.inst) + k) \in s.days /\ cand(k) >= from.inst
        hits == {k \in 0 .. LastScanDay : ok(k)}
    IN  IF hits = {}
        THEN [at |-> from, err |-> TRUE]
        ELSE [at |-> Date(cand(CHOOSE k \in hits : \A j \in hits : k <= j)),
              err |-> FALSE]

\* Schedule.GetReplicas(): the rule's explicit replica count; without one
\* there is nothing to resolve, as the call is given no saved state.
GetReplicas(s) ==
    IF s.replicas.set
    THEN [repl |-> s.replicas.n, err |-> FALSE]
    ELSE [repl |-> 0, err |-> TRUE]

----------------------------------------------------------------------------
(* scanner.Object, scanner.State and the backend *)


\* *State: a nil pointer, or the saved replica count
NoState == [present |-> FALSE, Replicas |-> 0]
SavedState(n) == [present |-> TRUE, Replicas |-> n]

\* no state annotation on the resource
NoAnnotation == ""

Digit(d) == CASE d = 0 -> "0" [] d = 1 -> "1" [] d = 2 -> "2" [] d = 3 -> "3"
              [] d = 4 -> "4" [] d = 5 -> "5" [] d = 6 -> "6" [] d = 7 -> "7"
              [] d = 8 -> "8" [] d = 9 -> "9"

RECURSIVE Itoa(_)
\* strconv.Itoa: the decimal string of an integer
Itoa(n) ==
    IF n < 0 THEN "-" \o Itoa(0 - n)
    ELSE IF n < 10 THEN Digit(n)
    ELSE Itoa(n \div 10) \o Digit(n % 10)

\* OpenShiftScanner.toObject: the Object of a deployment config.  The
\* composite literal sets neither a scale nor a save-state operation.
toObject(uid, sched, state, replicas) ==
    [UID |-> uid, Schedule |-> sched, State |-> state,
     Replicas |-> replicas, Scale |-> "nil"]

\* a resource for which getSchedule resolves no schedule
NilSchedule == <<>>

\* an Object whose Scale field has been bound to the scanner's Scale
Bind(obj) == [obj EXCEPT !.Scale = "bound"]

----------------------------------------------------------------------------
(* worker.getEvents *)

\* mutant of Walk: the error of GetNextTrigger is not looked at
RECURSIVE WalkErrorIgnored(_, _, _, _)
WalkErrorIgnored(s, next, tnow, acc) ==
    IF After(next, tnow) THEN acc
    ELSE LET r == GetNextTrigger(s, next)
         IN  IF After(tnow, r.at) \/ TimeEq(tnow, r.at)
             THEN WalkErrorIgnored(s, AddDay(r.at), tnow, Append(acc, r.at))
             ELSE WalkErrorIgnored(s, AddDay(r.at), tnow, acc)

RECURSIVE Walk(_, _, _, _)
\* the day walk of one rule: for next := a.past; !next.After(a.now);
\* next = next.AddDate(0, 0, 1), with next overwritten by GetNextTrigger
Walk(s, next, tnow, acc) ==
    IF After(next, tnow) THEN acc
    ELSE LET r == GetNextTrigger(s, next)
         IN  IF r.err
             THEN Walk(s, AddDay(r.at), tnow, acc)
             ELSE IF After(tnow, r.at) \/ TimeEq(tnow, r.at)
                  THEN Walk(s, AddDay(r.at), tnow, Append(acc, r.at))
                  ELSE Walk(s, AddDay(r.at), tnow, acc)

RECURSIVE Collect(_, _, _, _)
\* the events of the rules i.. of obj, in the order the loops append them
Collect(obj, i, tpast, tnow) ==
    IF i > Len(obj.Schedule) THEN <<>>
    ELSE LET ats == Walk(obj.Schedule[i], tpast, tnow, <<>>)
         IN  [k \in 1 .. Len(ats) |-> [at |-> ats[k], obj |-> obj, sched |-> i]]
             \o Collect(obj, i + 1, tpast, tnow)

RemoveAt(seq, i) == [k \in 1 .. (Len(seq) - 1) |-> IF k < i THEN seq[k] ELSE seq[k + 1]]

\* mutant of SortSlice: the events are left in the order they were appended
NoSort(ev) == {ev}

RECURSIVE SortSlice(_)
\* sort.Slice(ev, at.Before): some permutation in which no event is before
\* an earlier one; sort.Slice does not promise to keep equal elements in
\* their original order, so every such permutation is an outcome
SortSlice(ev) ==
    IF ev = <<>> THEN {<<>>}
    ELSE LET least == {i \in 1 .. Len(ev) :
                          \A j \in 1 .. Len(ev) : ~After(ev[i].at, ev[j].at)}
         IN  UNION { { <<ev[i]>> \o rest : rest \in SortSlice(RemoveAt(ev, i)) }
                     : i \in least }

\* worker.getEvents(obj): the outcomes of the collection and the sort
getEvents(obj, tpast, tnow) == SortSlice(Collect(obj, 1, tpast, tnow))

----------------------------------------------------------------------------
(* OpenShiftScanner.Scale and worker.Scale *)

\* OpenShiftScanner.Scale(obj, replicas): GetScale, set Spec.Replicas to
\* replicas (a count up to MaxReplicas, the same in int and int32),
\* UpdateScale.  ok is whether every backend call went
\* through; a failed call leaves the resource as it was.
ScannerScale(lv, uid, replicas, ok) ==
    IF ok THEN [lv EXCEPT ![uid] = replicas] ELSE lv

\* mutant of Apply: the first failed scale ends the tick's loops
RECURSIVE ApplyAbort(_, _, _, _)
ApplyAbort(evs, i, fails, st) ==
    IF i > Len(evs) THEN st
    ELSE LET e == evs[i]
             uid == e.obj.UID
             r == GetReplicas(e.obj.Schedule[e.sched])
             seen == Append(st.processed,
                            [uid |-> uid, sched |-> e.sched, at |-> e.at.inst,
                             state |-> e.obj.State, scale |-> e.obj.Scale,
                             pre |-> st.live[uid]])
         IN  IF e.obj.Scale # "nil" /\ ~r.err
             THEN IF i \in fails
                  THEN [live |-> st.live, processed |-> seen,
                        calls |-> Append(st.calls,
                                   [op |-> "Scale", uid |-> uid, arg |-> r.repl, id |-> "",
                                    ok |-> FALSE, ev |-> i])]
                  ELSE ApplyAbort(evs, i + 1, fails,
                         [live |-> ScannerScale(st.live, uid, r.repl, TRUE),
                          processed |-> seen,
                          calls |-> Append(st.calls,
                                     [op |-> "Scale", uid |-> uid, arg |-> r.repl, id |-> "",
                                      ok |-> TRUE, ev |-> i])])
             ELSE ApplyAbort(evs, i + 1, fails,
                    [live |-> st.live, processed |-> seen, calls |-> st.calls])

\* mutant of Apply: the scale operation is called with the count that
\* GetReplicas returned, whether or not it returned an error
RECURSIVE ApplyUnresolved(_, _, _, _)
ApplyUnresolved(evs, i, fails, st) ==
    IF i > Len(evs) THEN st
    ELSE LET e == evs[i]
             uid == e.obj.UID
             r == GetReplicas(e.obj.Schedule[e.sched])
             seen == Append(st.processed,
                            [uid |-> uid, sched |-> e.sched, at |-> e.at.inst,
                             state |-> e.obj.State, scale |-> e.obj.Scale,
                             pre |-> st.live[uid]])
         IN  IF e.obj.Scale # "nil"
             THEN ApplyUnresolved(evs, i + 1, fails,
                    [live |-> ScannerScale(st.live, uid, r.repl, i \notin fails),
                     processed |-> seen,
                     calls |-> Append(st.calls,
                                [op |-> "Scale", uid |-> uid, arg |-> r.repl, id |-> "",
                                 ok |-> i \notin fails, ev |-> i])])
             ELSE ApplyUnresolved(evs, i + 1, fails,
                    [live |-> st.live, processed |-> seen, calls |-> st.calls])

RECURSIVE Apply(_, _, _, _)
\* the body of the loops of worker.Scale over the events evs[i..]: when the
\* event's Object has a scale operation, resolve the rule's replica count
\* and, if that succeeded, call the operation; an error is logged.  fails
\* holds the events whose scale operation returns an error.  st is the
\* backend's replica counts, the events handled so far (with the replica
\* count of the resource at that moment) and the backend calls made.
Apply(evs, i, fails, st) ==
    IF i > Len(evs) THEN st
    ELSE LET e == evs[i]
             uid == e.obj.UID
             r == GetReplicas(e.obj.Schedule[e.sched])
             seen == Append(st.processed,
                            [uid |-> uid, sched |-> e.sched, at |-> e.at.inst,
                             state |-> e.obj.State, scale |-> e.obj.Scale,
                             pre |-> st.live[uid]])
         IN  IF e.obj.Scale # "nil" /\ ~r.err
             THEN Apply(evs, i + 1, fails,
                    [live |-> ScannerScale(st.live, uid, r.repl, i \notin fails),
                     processed |-> seen,
                     calls |-> Append(st.calls,
                                [op |-> "Scale", uid |-> uid, arg |-> r.repl, id |-> "",
                                 ok |-> i \notin fails, ev |-> i])])
             ELSE Apply(evs, i + 1, fails,
                    [live |-> st.live, processed |-> seen, calls |-> st.calls])

\* the orders in which a range over a.objects can visit the tracked Objects
Orders(S) ==
    {o \in [1 .. Cardinality(S) -> S] : \A i, j \in DOMAIN o : i # j => o[i] # o[j]}

RECURSIVE Runs(_, _, _, _)
\* the event sequences of one tick: for each Object in the order ord, one
\* outcome of getEvents
Runs(ord, i, tpast, tnow) ==
    IF i > Len(ord) THEN {<<>>}
    ELSE { a \o b : a \in getEvents(objects[ord[i]], tpast, tnow),
                    b \in Runs(ord, i + 1, tpast, tnow) }

\* the sets of events whose scale operation fails in one tick
FailChoices(n) == {F \in SUBSET (1 .. n) : Cardinality(F) <= MaxFailures}

\* worker.Scale: one tick at the clock reading t
WorkerScale(t, ord, evs, fails) ==
    LET tnow == Now(t)
        st == Apply(evs, 1, fails, [live |-> live, processed |-> <<>>, calls |-> <<>>])
    IN  /\ now' = tnow
        /\ live' = st.live
        /\ processed' = st.processed
        /\ calls' = st.calls
        /\ winPast' = past
        /\ visited' = ord
        /\ past' = tnow
        /\ prevProduced' = prevProduced \cup lastProduced
        /\ lastProduced' = {<<evs[k].obj.UID, evs[k].sched, evs[k].at.inst>> : k \in 1 .. Len(evs)}
        /\ UNCHANGED <<objects, schedule, annot>>
        /\ UNCHANGED besideAgent

Tick ==
    \E t \in past.inst .. past.inst + MaxGap :
        /\ t <= MaxClock
        /\ \E ord \in Orders(DOMAIN objects) :
             \E evs \in Runs(ord, 1, past, Now(t)) :
               \E fails \in FailChoices(Len(evs)) :
                 WorkerScale(t, ord, evs, fails)

----------------------------------------------------------------------------
(* OpenShiftScanner.SaveState, and the tracked set *)

\* getState: the State of a resource's state annotation; an annotation that
\* is absent or no decimal number gives no State
getState(a) ==
    IF \E n \in 0 .. MaxReplicas : Itoa(n) = a
    THEN SavedState(CHOOSE n \in 0 .. MaxReplicas : Itoa(n) = a)
    ELSE NoState

\* mutant of SaveState: the count saved is the one the Object was listed with
SaveStateCached(uid, getOk, updOk) ==
    /\ uid \in DOMAIN objects
    /\ \E i \in DOMAIN schedule[uid] : schedule[uid][i].action = "save"
    /\ IF ~getOk
       THEN UNCHANGED <<objects, annot>>
       ELSE LET repl == objects[uid].Replicas
            IN  /\ objects' = [objects EXCEPT ![uid].State = SavedState(repl)]
                /\ annot' = IF updOk THEN [annot EXCEPT ![uid] = Itoa(repl)]
                            ELSE annot
    /\ UNCHANGED <<past, now, schedule, live, winPast, visited, processed, calls,
                   prevProduced, lastProduced>>
    /\ UNCHANGED besideAgent

\* OpenShiftScanner.SaveState(obj) on the tracked Object uid: read the
\* deployment config (getOk: the read succeeded), put the decimal string of
\* its replica count in the annotation, set obj.State, and only then Update
\* the resource (updOk: the update succeeded).
SaveState(uid, getOk, updOk) ==
    /\ uid \in DOMAIN objects
    /\ \E i \in DOMAIN schedule[uid] : schedule[uid][i].action = "save"
    /\ IF ~getOk
       THEN UNCHANGED <<objects, annot>>
       ELSE LET repl == live[uid]
            IN  /\ objects' = [objects EXCEPT ![uid].State = SavedState(repl)]
                /\ annot' = IF updOk THEN [annot EXCEPT ![uid] = Itoa(repl)]
                            ELSE annot
    /\ UNCHANGED <<past, now, schedule, live, winPast, visited, processed, calls,
                   prevProduced, lastProduced>>
    /\ UNCHANGED besideAgent

\* the tracked set after the controller's first listing: the Object that the
\* scanner made of each resource, with a scale operation bound for the
\* resources in bound
Tracked(sched, lv, an, bound) ==
    [u \in {v \in UIDs : sched[v] # NilSchedule} |->
        LET obj == toObject(u, sched[u], getState(an[u]), lv[u])
        IN  IF u \in bound THEN Bind(obj) ELSE obj]

\* the controller removes the Object of the resource uid from the tracked set
Untrack(uid) ==
    /\ uid \in DOMAIN objects
    /\ objects' = [u \in DOMAIN objects \ {uid} |-> objects[u]]
    /\ UNCHANGED <<past, now, schedule, live, annot, winPast, visited, processed, calls,
                   prevProduced, lastProduced>>
    /\ UNCHANGED besideAgent

----------------------------------------------------------------------------
(* OpenShiftScanner.GetObjects *)

\* the order in which the backend lists the deployment configs
ListOrder == <<"dc1", "dc2">>

\* the items of the backend's list: of each deployment config its UID, the
\* schedule that getSchedule resolves for it (NilSchedule: none), its
\* annotations and its replica count
DeploymentConfigs(sched, lv, an) ==
    [k \in DOMAIN ListOrder |->
        [UID |-> ListOrder[k], Schedule |-> sched[ListOrder[k]],
         Annotations |-> an[ListOrder[k]], Replicas |-> lv[ListOrder[k]]]]

\* toObject(&rc) of a list item: the State is what getState returns, also
\* when getState returned an error, which is logged only
ObjectOf(rc) == toObject(rc.UID, rc.Schedule, getState(rc.Annotations), rc.Replicas)

\* mutant of getObjects: a resource whose state annotation gave no State is
\* left out of the list
getObjectsOfParsed(rcs) ==
    SelectSeq([k \in DOMAIN rcs |-> ObjectOf(rcs[k])],
              LAMBDA obj : obj.Schedule # NilSchedule /\ obj.State.present)

\* getObjects(rcs): the Objects of the items that have a schedule
getObjects(rcs) ==
    SelectSeq([k \in DOMAIN rcs |-> ObjectOf(rcs[k])],
              LAMBDA obj : obj.Schedule # NilSchedule)

\* GetObjects(): list the deployment configs (ok: the backend call went
\* through) and return their Objects, or the error of the call
GetObjects(ok) ==
    /\ IF ok
       THEN /\ listed' = getObjects(DeploymentConfigs(schedule, live, annot))
            /\ listRet' = "ok"
       ELSE /\ listed' = <<>>
            /\ listRet' = "error"
    /\ UNCHANGED besideScan

----------------------------------------------------------------------------
(* OpenShiftScanner.Watch *)

\* the types of the events of the backend's change stream
WatchTypes == {"ADDED", "MODIFIED", "DELETED", "ERROR"}
\* what event.Object holds: a deployment config, another object (the Status
\* of an ERROR event), or nothing
Payloads == {"dc", "status", "nil"}

\* Watch(): without a kubernetes configuration (kube) or a client (client)
\* it returns an error; otherwise it asks the backend for a watcher, whose
\* error it does not look at (watcher: the backend returned one), makes the
\* output channel, starts the task and returns the channel.
Watch(kube, client, watcher) ==
    /\ watchRet = "not called"
    /\ IF ~kube \/ ~client
       THEN /\ watchRet' = "error"
            /\ UNCHANGED <<wpc, watcherNil>>
       ELSE /\ watchRet' = "channel"
            /\ wpc' = "start"
            /\ watcherNil' = ~watcher
    /\ UNCHANGED <<inch, inClosed, sending, outLog, delays, streamed, stopped>>
    /\ UNCHANGED besideWatch

\* the task's first statement, inch := watcher.ResultChan(): a call on the
\* nil watcher of a failed backend call is a nil dereference
TaskStart ==
    /\ wpc = "start"
    /\ wpc' = IF watcherNil THEN "panic" ELSE "range"
    /\ UNCHANGED <<watchRet, watcherNil, inch, inClosed, sending, outLog, delays, streamed, stopped>>
    /\ UNCHANGED besideWatch

\* the backend puts an event on the change stream
StreamEvent(type, payload) ==
    /\ watchRet = "channel" /\ ~watcherNil /\ ~inClosed
    /\ streamed < MaxStream
    /\ streamed' = streamed + 1
    /\ inch' = Append(inch, [Type |-> type, Object |-> payload])
    /\ UNCHANGED <<wpc, watchRet, watcherNil, inClosed, sending, outLog, delays, stopped>>
    /\ UNCHANGED besideWatch

\* the backend ends the change stream: the result channel is closed
StreamClose ==
    /\ watchRet = "channel" /\ ~watcherNil /\ ~inClosed
    /\ inClosed' = TRUE
    /\ UNCHANGED <<wpc, watchRet, watcherNil, inch, sending, outLog, delays, streamed, stopped>>
    /\ UNCHANGED besideWatch

\* one round of for event := range inch: the type assertion, whose failure
\* is logged and leaves dc nil; toObject(dc), which reads rc.ObjectMeta and
\* so dereferences dc; the switch on the event's type, which sends on outch
\* for ADDED and DELETED
TaskReceive ==
    /\ wpc = "range" /\ inch # <<>>
    /\ LET event == Head(inch)
       IN  /\ inch' = Tail(inch)
           /\ IF event.Object # "dc"
              THEN wpc' = "panic" /\ UNCHANGED sending
              ELSE IF event.Type = "ADDED"
                   THEN wpc' = "send" /\ sending' = "add"
                   ELSE IF event.Type = "DELETED"
                        THEN wpc' = "send" /\ sending' = "remove"
                        ELSE wpc' = "range" /\ UNCHANGED sending
    /\ UNCHANGED <<watchRet, watcherNil, inClosed, outLog, delays, streamed, stopped>>
    /\ UNCHANGED besideWatch

\* the range over the closed and drained result channel ends, and the task
\* with it
TaskEnd ==
    /\ wpc = "range" /\ inch = <<>> /\ inClosed
    /\ wpc' = "exited"
    /\ UNCHANGED <<watchRet, watcherNil, inch, inClosed, sending, outLog, delays, streamed, stopped>>
    /\ UNCHANGED besideWatch

\* the consumer of the output channel takes the event the task is sending;
\* a consumer that has given the watch up reads no more
ConsumerReceive ==
    /\ wpc = "send" /\ ~stopped
    /\ outLog' = Append(outLog, sending)
    /\ wpc' = "range"
    /\ UNCHANGED <<watchRet, watcherNil, inch, inClosed, sending, delays, streamed, stopped>>
    /\ UNCHANGED besideWatch

----------------------------------------------------------------------------

\* the owner of the watch gives it up: Watch() takes no stop channel and
\* returns nothing to cancel the task with, so all the owner can do is stop
\* reading the output channel; no statement of the task looks at this
Stop ==
    /\ watchRet = "channel" /\ ~stopped
    /\ stopped' = TRUE
    /\ UNCHANGED <<wpc, watchRet, watcherNil, inch, inClosed, sending, outLog, delays, streamed>>
    /\ UNCHANGED besideWatch

----------------------------------------------------------------------------
(* The dispatch loop, the scanner and the controller together *)

\* the state after construction, for backend resources whose schedules are
\* one of S and whose state annotations are one of A
InitFrom(S, A) ==
    /\ past = Now(0)
    /\ now = ZeroTime
    /\ schedule \in S
    /\ live = [dc1 |-> MaxReplicas, dc2 |-> 1]
    /\ annot \in A
    /\ \E bound \in SUBSET UIDs : objects = Tracked(schedule, live, annot, bound)
    /\ winPast = past
    /\ visited = <<>>
    /\ processed = <<>>
    /\ calls = <<>>
    /\ prevProduced = {}
    /\ lastProduced = {}
    /\ wpc = "none"
    /\ watchRet = "not called"
    /\ watcherNil = FALSE
    /\ inch = <<>>
    /\ inClosed = FALSE
    /\ sending = "none"
    /\ outLog = <<>>
    /\ delays = <<>>
    /\ streamed = 0
    /\ stopped = FALSE
    /\ listed = <<>>
    /\ listRet = "not called"
    /\ scalePc = "idle"
    /\ remaining = {}
    /\ wkPc = "idle"
    /\ wkSched = <<>>
    /\ wkI = 0
    /\ wkNext = ZeroTime
    /\ wkAt = {}

Init == InitFrom(ScheduleChoices, {[u \in UIDs |-> NoAnnotation]})

Next ==
    \/ Tick
    \/ \E uid \in UIDs, getOk, updOk \in BOOLEAN : SaveState(uid, getOk, updOk)
    \/ \E uid \in UIDs : Untrack(uid)

Spec == Init /\ [][Next]_vars

NextWatch ==
    \/ \E kube, client, watcher \in BOOLEAN : Watch(kube, client, watcher)
    \/ TaskStart
    \/ \E type \in WatchTypes, payload \in Payloads : StreamEvent(type, payload)
    \/ StreamClose
    \/ TaskReceive
    \/ TaskEnd
    \/ ConsumerReceive
    \/ Stop

\* the watch of the scanner on its own
SpecWatch == Init /\ [][NextWatch]_vars

\* the state annotations a resource can carry: none, a count that SaveState
\* wrote, or text that is no decimal number
AnnotationChoices == {NoAnnotation, Itoa(0), Itoa(MaxReplicas), "two", "1.5"}

\* the schedules of backend resources of which one may resolve no schedule
ScanScheduleChoices ==
    ScheduleChoices \cup {[dc1 |-> NilSchedule, dc2 |-> <<MorningTwo>>],
                          [dc1 |-> <<EveningSave>>, dc2 |-> NilSchedule]}

InitScan == InitFrom(ScanScheduleChoices, [UIDs -> AnnotationChoices])

NextScan == \E ok \in BOOLEAN : GetObjects(ok)

\* the listings of the scanner over resources with any annotations
SpecScan == InitScan /\ [][NextScan]_vars

----------------------------------------------------------------------------
(* worker.Scale statement by statement, next to the watch consumer *)

\* Scale() reads the clock and starts its range over a.objects; it takes no
\* lock
ScaleBegin(t) ==
    /\ scalePc = "idle"
    /\ t <= MaxClock
    /\ now' = Now(t)
    /\ scalePc' = "range"
    /\ remaining' = DOMAIN objects
    /\ UNCHANGED <<past, objects, schedule, live, annot, winPast, visited, processed,
                   calls, prevProduced, lastProduced>>
    /\ UNCHANGED <<watchVars, scanVars, walkVars>>

\* one round of the range: the events of the Object uid, in the order evs,
\* are handled
ScaleVisit(uid, evs, fails) ==
    /\ scalePc = "range"
    /\ uid \in remaining \cap DOMAIN objects
    /\ remaining' = remaining \ {uid}
    /\ live' = Apply(evs, 1, fails,
                     [live |-> live, processed |-> <<>>, calls |-> <<>>]).live
    /\ UNCHANGED <<past, now, objects, schedule, annot, winPast, visited, processed,
                   calls, prevProduced, lastProduced, scalePc>>
    /\ UNCHANGED <<watchVars, scanVars, walkVars>>

\* the range is over: a.past = a.now
ScaleEnd ==
    /\ scalePc = "range"
    /\ remaining \cap DOMAIN objects = {}
    /\ past' = now
    /\ scalePc' = "idle"
    /\ remaining' = {}
    /\ UNCHANGED <<now, objects, schedule, live, annot, winPast, visited, processed,
                   calls, prevProduced, lastProduced>>
    /\ UNCHANGED <<watchVars, scanVars, walkVars>>

\* the consumer of the watch channel, a task of its own, puts the Object of
\* an add event in the tracked set; a range that is under way may or may
\* not come to visit it
ConsumerAdd(uid, bind, seen) ==
    /\ uid \in UIDs \ DOMAIN objects
    /\ schedule[uid] # NilSchedule
    /\ LET obj == toObject(uid, schedule[uid], getState(annot[uid]), live[uid])
       IN  objects' = [u \in DOMAIN objects \cup {uid} |->
                          IF u = uid THEN (IF bind THEN Bind(obj) ELSE obj)
                          ELSE objects[u]]
    /\ remaining' = IF scalePc = "range" /\ seen THEN remaining \cup {uid}
                    ELSE remaining
    /\ UNCHANGED <<past, now, schedule, live, annot, winPast, visited, processed,
                   calls, prevProduced, lastProduced, scalePc>>
    /\ UNCHANGED <<watchVars, scanVars, walkVars>>

\* the consumer takes the Object of a remove event out of the tracked set
ConsumerRemove(uid) ==
    /\ uid \in DOMAIN objects
    /\ objects' = [u \in DOMAIN objects \ {uid} |-> objects[u]]
    /\ UNCHANGED <<past, now, schedule, live, annot, winPast, visited, processed,
                   calls, prevProduced, lastProduced, scalePc, remaining>>
    /\ UNCHANGED <<watchVars, scanVars, walkVars>>

NextRange ==
    \/ \E t \in past.inst .. past.inst + MaxGap : ScaleBegin(t)
    \/ \E uid \in UIDs :
          /\ uid \in DOMAIN objects
          /\ \E evs \in getEvents(objects[uid], past, now) :
                \E fails \in FailChoices(Len(evs)) : ScaleVisit(uid, evs, fails)
    \/ ScaleEnd
    \/ \E uid \in UIDs, bind, seen \in BOOLEAN : ConsumerAdd(uid, bind, seen)
    \/ \E uid \in UIDs : ConsumerRemove(uid)

\* the dispatch loop and the watch consumer, each a task of its own
SpecRange == Init /\ [][NextRange]_vars

----------------------------------------------------------------------------
(* worker.getEvents statement by statement *)

\* a tick at the clock reading t comes to getEvents(obj) for the tracked
\* Object uid: the outer loop starts at the first rule, the inner loop at
\* next := a.past
WalkBegin(t, uid) ==
    /\ wkPc = "idle"
    /\ t <= MaxClock
    /\ uid \in DOMAIN objects
    /\ now' = Now(t)
    /\ wkSched' = objects[uid].Schedule
    /\ wkI' = 1
    /\ wkNext' = past
    /\ wkAt' = {}
    /\ wkPc' = "walk"
    /\ UNCHANGED past
    /\ UNCHANGED besideWalk

\* one iteration of the inner loop for the rule wkI: the condition
\* !next.After(a.now) holds, next is overwritten by what GetNextTrigger
\* returns, the event is appended if there was no error and the trigger is
\* not after now, and the post statement adds a day
WalkIterate ==
    /\ wkPc = "walk" /\ wkI <= Len(wkSched)
    /\ ~After(wkNext, now)
    /\ LET r == GetNextTrigger(wkSched[wkI], wkNext)
       IN  /\ wkNext' = AddDay(r.at)
           /\ wkAt' = IF ~r.err /\ (After(now, r.at) \/ TimeEq(now, r.at))
                      THEN wkAt \cup {r.at.inst}
                      ELSE wkAt
    /\ UNCHANGED <<past, now, wkPc, wkSched, wkI>>
    /\ UNCHANGED besideWalk

\* the condition of the inner loop fails: on to the next rule
WalkNextRule ==
    /\ wkPc = "walk" /\ wkI <= Len(wkSched)
    /\ After(wkNext, now)
    /\ wkI' = wkI + 1
    /\ wkNext' = past
    /\ UNCHANGED <<past, now, wkPc, wkSched, wkAt>>
    /\ UNCHANGED besideWalk

\* the outer loop is over: getEvents returns and the tick ends with
\* a.past = a.now
WalkReturn ==
    /\ wkPc = "walk" /\ wkI > Len(wkSched)
    /\ past' = now
    /\ wkPc' = "idle"
    /\ UNCHANGED <<now, wkSched, wkI, wkNext, wkAt>>
    /\ UNCHANGED besideWalk

\* rule lists for the walk, among them one whose every rule has no days
WalkScheduleChoices ==
    ScheduleChoices \cup {[dc1 |-> <<Inert, Inert>>, dc2 |-> <<TuesdayOne, Inert>>]}

InitWalk == InitFrom(WalkScheduleChoices, {[u \in UIDs |-> NoAnnotation]})

NextWalk ==
    \/ \E t \in past.inst .. past.inst + MaxGap, uid \in UIDs : WalkBegin(t, uid)
    \/ WalkIterate
    \/ WalkNextRule
    \/ WalkReturn

\* the walk of one Object's rules in a tick; the goroutine of the dispatch
\* loop is scheduled as long as it has a statement to run
SpecWalk ==
    /\ InitWalk
    /\ [][NextWalk]_vars
    /\ WF_vars(WalkIterate) /\ WF_vars(WalkNextRule) /\ WF_vars(WalkReturn)

----------------------------------------------------------------------------
(* Properties of the dispatch loop *)

\* the rule of a handled event
RuleOf(p) == schedule[p.uid][p.sched]

\* the occurrences of the rule s in [lo, hi]: the instants on a day of the
\* rule at the rule's time of day
Occurrences(s, lo, hi) ==
    {t \in lo .. hi : Weekday(Day(t)) \in s.days /\ Slot(t) = s.time}

\* the handled events of the last tick that are the occurrence t of rule i
\* of the Object uid
EventsOf(uid, i, t) ==
    {j \in DOMAIN processed :
        processed[j].uid = uid /\ processed[j].sched = i /\ processed[j].at = t}

\* C1: the events of one Object are handled in ascending order of their
\* trigger timestamps, whatever the order of the Object's rules
C1_AscendingOrder ==
    \A i, j \in DOMAIN processed :
        (i < j /\ processed[i].uid = processed[j].uid)
            => processed[i].at <= processed[j].at

\* a tick over a window of two days has handled, for an Object whose evening
\* rule is declared before its morning rule, a morning event before an
\* evening event
C1_Witness ==
    /\ now.inst - winPast.inst >= 2 * SlotsPerDay
    /\ \E i, j \in DOMAIN processed :
          /\ i < j
          /\ processed[i].uid = processed[j].uid
          /\ processed[i].scale = "bound"
          /\ processed[i].sched > processed[j].sched
          /\ processed[i].at < processed[j].at
          /\ Cardinality({k \in DOMAIN processed : processed[k].uid = processed[i].uid}) >= 4

\* C2: events of one Object with the same trigger timestamp are handled in
\* the order of their rules in the Object's rule list
C2_StableOnTies ==
    \A i, j \in DOMAIN processed :
        (i < j /\ processed[i].uid = processed[j].uid
               /\ processed[i].at = processed[j].at)
            => processed[i].sched < processed[j].sched

\* C3: in a tick with past <= now, a rule with days has exactly one event for
\* each of its occurrences in [past, now] and no other event
C3_ExactlyTheWindow ==
    winPast.inst <= now.inst =>
        \A k \in DOMAIN visited :
            \A i \in DOMAIN schedule[visited[k]] :
                LET uid == visited[k]
                    s == schedule[uid][i]
                    occ == Occurrences(s, winPast.inst, now.inst)
                IN  s.days # {} =>
                        /\ \A t \in occ : Cardinality(EventsOf(uid, i, t)) = 1
                        /\ \A j \in DOMAIN processed :
                              (processed[j].uid = uid /\ processed[j].sched = i)
                                  => processed[j].at \in occ

C5_FaultIsolation ==
    /\ {<<processed[j].uid, processed[j].sched, processed[j].at>> : j \in DOMAIN processed}
          = lastProduced
    /\ \A j \in DOMAIN processed :
          (processed[j].scale = "bound" /\ ~GetReplicas(RuleOf(processed[j])).err)
              => \E c \in DOMAIN calls : calls[c].op = "Scale" /\ calls[c].ev = j
    /\ now # ZeroTime => past = now

\* a scale operation failed, and after it the tick scaled the same Object
\* again and another Object too, skipped an event whose replica count did
\* not resolve, and ended
C5_Witness ==
    /\ past = now
    /\ \E a, b, c \in DOMAIN calls :
          /\ a < b /\ a < c
          /\ ~calls[a].ok /\ calls[b].ok /\ calls[c].ok
          /\ calls[b].uid = calls[a].uid
          /\ calls[c].uid # calls[a].uid
    /\ \E j \in DOMAIN processed :
          /\ processed[j].scale = "bound"
          /\ GetReplicas(RuleOf(processed[j])).err
          /\ j < Len(processed)

\* C6: the scale of an event whose rule has action save is preceded by a
\* SaveState call for that event
C6_SaveBeforeScale ==
    \A c \in DOMAIN calls :
        (calls[c].op = "Scale" /\ RuleOf(processed[calls[c].ev]).action = "save")
            => \E b \in 1 .. (c - 1) :
                  calls[b].op = "SaveState" /\ calls[b].ev = calls[c].ev

\* C7: a restore event without an explicit replica count, of an Object whose
\* State holds the count that SaveState stored, scales the Object to that
\* count
C7_RoundTrip ==
    \A j \in DOMAIN processed :
        (/\ RuleOf(processed[j]).action = "restore"
         /\ ~RuleOf(processed[j]).replicas.set
         /\ processed[j].state.present
         /\ processed[j].scale = "bound")
            => \E c \in DOMAIN calls :
                  /\ calls[c].op = "Scale" /\ calls[c].ev = j
                  /\ calls[c].arg = processed[j].state.Replicas

\* C8: an event handled after a save event of the same Object in the same
\* tick sees the State of that save: the replica count the resource had
\* when the save event was handled
C8_LaterEventsSeeSave ==
    \A i, j \in DOMAIN processed :
        (/\ i < j
         /\ processed[i].uid = processed[j].uid
         /\ processed[i].scale = "bound"
         /\ RuleOf(processed[i]).action = "save"
         /\ \A k \in (i + 1) .. (j - 1) :
               ~(processed[k].uid = processed[i].uid /\ RuleOf(processed[k]).action = "save"))
            => processed[j].state = SavedState(processed[i].pre)

\* C9: for every handled event of an Object with a scale operation, each
\* trigger identifier of its rule is dispatched, in the rule's order
C9_TriggersDispatched ==
    \A j \in DOMAIN processed :
        processed[j].scale = "bound" =>
            LET ids == RuleOf(processed[j]).triggers
                fired == {c \in DOMAIN calls : calls[c].op = "FireTrigger" /\ calls[c].ev = j}
            IN  /\ Cardinality(fired) = Len(ids)
                /\ \A k \in DOMAIN ids :
                      \E c \in fired :
                          /\ calls[c].id = ids[k]
                          /\ Cardinality({d \in fired : d < c}) = k - 1

\* C14: a rule without days has no event in any tick, and the other rules
\* of its Object have theirs: an event for each of their occurrences from
\* past up to, not including, now
C14_InertRuleSilent ==
    /\ \A j \in DOMAIN processed : RuleOf(processed[j]).days # {}
    /\ \A k \in DOMAIN visited :
          LET uid == visited[k]
          IN  (\E i \in DOMAIN schedule[uid] : schedule[uid][i].days = {}) =>
                 \A i \in DOMAIN schedule[uid] :
                    \A t \in Occurrences(schedule[uid][i], winPast.inst, now.inst - 1) :
                       EventsOf(uid, i, t) # {}

\* a tick over more than a day has visited an Object whose first rule has
\* no days, and handled two events of the rule declared after it
C14_Witness ==
    \E k \in DOMAIN visited :
        /\ schedule[visited[k]][1].days = {}
        /\ now.inst - winPast.inst > SlotsPerDay
        /\ Cardinality({j \in DOMAIN processed :
                           processed[j].uid = visited[k] /\ processed[j].sched = 2}) >= 2

\* C15: while Scale ranges over the tracked set, no step changes the set
C15_RangeExcludesMutation ==
    [][scalePc = "range" => objects' = objects]_vars

\* C16: the Object of every handled event has a scale operation, and an
\* event whose replica count resolves leads to exactly one call of it, with
\* that count
C16_ScaleOperationBound ==
    \A j \in DOMAIN processed :
        /\ processed[j].scale # "nil"
        /\ ~GetReplicas(RuleOf(processed[j])).err
              => /\ Cardinality({c \in DOMAIN calls :
                                    calls[c].op = "Scale" /\ calls[c].ev = j}) = 1
                 /\ \A c \in DOMAIN calls :
                       (calls[c].op = "Scale" /\ calls[c].ev = j)
                           => calls[c].arg = GetReplicas(RuleOf(processed[j])).repl

\* the replica count of the resource of the handled event j right after
\* the event was handled: the count before the next handled event of the
\* resource, or the count at the end of the tick
CountAfter(j) ==
    LET later == {k \in DOMAIN processed : k > j /\ processed[k].uid = processed[j].uid}
    IN  IF later = {} THEN live[processed[j].uid]
        ELSE processed[CHOOSE k \in later : \A m \in later : k <= m].pre

\* C17: for a handled event whose replica count does not resolve, the scale
\* operation is not called and the resource keeps its replica count; the
\* events after it in the tick are handled
C17_UnresolvedNotScaled ==
    \A j \in DOMAIN processed :
        GetReplicas(RuleOf(processed[j])).err =>
            /\ \A c \in DOMAIN calls : calls[c].ev # j
            /\ CountAfter(j) = processed[j].pre
            /\ Len(processed) = Cardinality(lastProduced)

\* a tick has handled, for an Object with a scale operation and a resource
\* with replicas, a restore event without a count, and after it has scaled
\* for a later event
C17_Witness ==
    \E j \in DOMAIN processed :
        /\ GetReplicas(RuleOf(processed[j])).err
        /\ RuleOf(processed[j]).action = "restore"
        /\ processed[j].scale = "bound"
        /\ ~processed[j].state.present
        /\ processed[j].pre > 0
        /\ \E c \in DOMAIN calls : calls[c].ev > j /\ calls[c].ok

\* C18: every iteration of the day walk of a rule moves the loop variable
\* forward, also when GetNextTrigger returned an error, and every walk that
\* has begun comes to its end with past = now
C18_WalkTerminates ==
    /\ [][(wkPc = "walk" /\ wkPc' = "walk" /\ wkI' = wkI)
            => wkNext'.inst > wkNext.inst]_vars
    /\ (wkPc = "walk") ~> (wkPc = "idle" /\ past = now)

\* the walk of a rule without days over a window of more than a day is in
\* its second iteration or later, and has not passed now yet
C18_Witness ==
    /\ wkPc = "walk" /\ wkI <= Len(wkSched)
    /\ wkSched[wkI].days = {}
    /\ wkNext.inst > past.inst
    /\ ~After(wkNext, now)

----------------------------------------------------------------------------
(* Properties of the scanner's SaveState *)

\* C12: a step that changes the State of a tracked Object, or the state
\* annotation of its resource, sets it to the replica count the backend
\* holds for the resource at that step: not to the count the Object was
\* listed with, and not to the count of an earlier save
C12_SavesLiveCount ==
    [][\A uid \in DOMAIN objects \cap DOMAIN objects' :
          /\ objects'[uid].State # objects[uid].State
                => objects'[uid].State = SavedState(live[uid])
          /\ annot'[uid] # annot[uid]
                => annot'[uid] = Itoa(live[uid])]_vars

\* after a save of an earlier count and a tick that scaled the resource
\* away from it, a save has stored and persisted the resource's present
\* count, which is not the count the Object was listed with
C12_Witness ==
    \E uid \in DOMAIN objects :
        /\ calls # <<>>
        /\ live[uid] # objects[uid].Replicas
        /\ objects[uid].State = SavedState(live[uid])
        /\ annot[uid] = Itoa(live[uid])

\* the state annotation a is present and getState cannot parse it
Unparsable(a) == a # NoAnnotation /\ \A n \in 0 .. MaxReplicas : Itoa(n) # a

\* C13: a listing that succeeded holds, for every resource with a resolved
\* schedule, exactly one Object, in the backend's order; the Object of a
\* resource whose state annotation cannot be parsed has no State
C13_UnparsedStateListed ==
    listRet = "ok" =>
        /\ \A uid \in UIDs :
              schedule[uid] # NilSchedule =>
                 /\ Cardinality({k \in DOMAIN listed : listed[k].UID = uid}) = 1
                 /\ \A k \in DOMAIN listed :
                       (listed[k].UID = uid /\ Unparsable(annot[uid]))
                           => listed[k].State = NoState
        /\ \A k \in DOMAIN listed : schedule[listed[k].UID] # NilSchedule

\* a listing holds the Object, without State, of a resource whose state
\* annotation is no number, next to the Object of a resource with a saved
\* State
C13_Witness ==
    /\ listRet = "ok"
    /\ \E j, k \in DOMAIN listed :
          /\ Unparsable(annot[listed[j].UID])
          /\ listed[j].State = NoState
          /\ listed[k].State.present

\* C19: the State of a tracked Object is a count that the backend holds in
\* the resource's state annotation: a SaveState that returned an error has
\* not changed it
C19_StateIsPersisted ==
    \A uid \in DOMAIN objects :
        objects[uid].State.present
            => annot[uid] = Itoa(objects[uid].State.Replicas)

----------------------------------------------------------------------------
(* Properties of the watch *)

RECURSIVE BackoffDelay(_)
\* the delay before the k-th reconnect attempt: 1, then doubled after each
\* failed attempt while it is at most BackoffCap
BackoffDelay(k) ==
    IF k <= 1 THEN 1
    ELSE IF BackoffDelay(k - 1) <= BackoffCap
         THEN 2 * BackoffDelay(k - 1)
         ELSE BackoffDelay(k - 1)

\* C10: when the change stream ends the task does not end but reconnects,
\* waiting 1, 2, 4, ... units before its attempts
C10_ReconnectBackoff ==
    /\ wpc # "exited"
    /\ (watchRet = "channel" /\ ~watcherNil /\ inClosed /\ inch = <<>>
            /\ wpc \notin {"start", "range", "send", "panic"})
          => Len(delays) >= 1
    /\ \A k \in DOMAIN delays : delays[k] = BackoffDelay(k)

\* C20: a Watch whose backend call gave no watcher returns an error and
\* starts no task, and the task never dereferences an absent watcher or a
\* payload that is no deployment config: such a payload is skipped and
\* nothing is published for it
C20_WatchFailsCleanly ==
    /\ watcherNil => (watchRet = "error" /\ wpc = "none")
    /\ wpc # "panic"

\* the statements of the task that can run in the current state
TaskStep == TaskStart \/ TaskReceive \/ TaskEnd

\* C11: once the owner has stopped the watch the task is ending: it has
\* ended or it has a statement to run; it is not left waiting on the change
\* stream or blocked in a send on the output channel that nobody reads
C11_StopTerminates ==
    stopped => (wpc \in {"exited", "panic"} \/ ENABLED TaskStep)

====
